---- MODULE Spec2Model ----
(***************************************************************************)
(* SecureBlog: registration, OTP verification, login, session tokens,      *)
(* role-based access control and request throttling of the Express server. *)
(* Every request handler is split at its awaits on the database: the       *)
(* "Start" action runs the middleware chain and the first query, the       *)
(* following actions run the continuation after each await.  Two request   *)
(* slots (Procs) are served concurrently by the single-threaded event      *)
(* loop, so continuations of different requests interleave.                *)
(* Time is the millisecond clock of Date.now(); it advances in steps of    *)
(* TickMs (for token expiry, of half the lifetime of a token).             *)
(***************************************************************************)
EXTENDS Integers, Sequences, FiniteSets, TLC

(* ------------------------------ bounds --------------------------------- *)
MaxClockTicks == 2
MaxIds == 3
MaxHits == 7
MaxRateTicks == 3
MaxTokenTicks == 3

Procs == {1, 2}
Ids == 1..MaxIds
MaxPosts == 2
PostIds == 1..MaxPosts
Emails == {"admin@secureblog.com", "alice@x.com"}
Usernames == {"admin", "alice"}
Passwords == {"pw1", "pw2"}
RegPasswords == {"pw1"}
Codes == {"111111", "222222"}
Titles == {<<"A">>, <<"a", " ", "b">>}
TickMs == 10 * 60 * 1000

(* ------------------------- program constants --------------------------- *)
Roles == {"reader", "author", "admin"}
OTP_TTL == 10 * 60 * 1000
windowMs == 15 * 60 * 1000
limiterMax == 100
otpLimiterMax_Lax == limiterMax
otpLimiterMax == 5
RateTickMs == windowMs \div 2
ADMIN_EMAIL == "admin@secureblog.com"
ADMIN_USERNAME == "admin"
ADMIN_PASSWORD == "pw2"
JWT_SECRET == "JWT_SECRET"

\* The limiters count per remote address.  Client is the address whose counters
\* are followed; FreshIp stands for an address that has sent nothing in the
\* current window, so its request is the first hit of a new counter.
Client == "10.0.0.1"
FreshIp == "fresh"

VARIABLES
  now,        \* Date.now(), in ms
  env,        \* process.env: NODE_ENV, JWT_EXPIRES_IN
  users,      \* the User collection: id -> document
  nextId,     \* next fresh _id
  otpStore,   \* the Map of services/otpService.js: email -> {code, expiresAt}
  mail,       \* the last delivery attempt of the notification channel
  rate,       \* the counters of the two rate limiters for the address Client
  reached,    \* per window, how many requests of Client got past the limiters
  pc,         \* position of each in-flight request
  loc,        \* locals of each in-flight request
  res,        \* the last response sent
  jar,        \* tokens held by clients: subject id -> last minted token
  posts,      \* the Post collection: id -> document
  nextPost    \* next fresh post _id

vars == <<now, env, users, nextId, otpStore, mail, rate, reached, pc, loc, res, jar,
          posts, nextPost>>

\* everything a request can change besides its own position and the response
stores == <<users, nextId, otpStore, mail, jar, posts, nextPost>>

NoUser == [none |-> "user"]
NoOtp == [none |-> "otp"]
NoToken == [none |-> "token"]
NoMail == [none |-> "mail"]
NoLoc == [none |-> "loc"]
NoRes == [none |-> "res"]
NoPost == [none |-> "post"]

Min(a, b) == IF a < b THEN a ELSE b

(* ------------------------------ User model ----------------------------- *)
\* bcrypt hash of a plaintext password (salt left out)
Hash(pw) == <<"bcrypt", pw>>

correctPassword(candidate, stored) == stored = Hash(candidate)

NewUser(username, email, password, role) ==
  [username |-> username, email |-> email, password |-> Hash(password),
   role |-> role, isVerified |-> FALSE, otp |-> NoOtp]

Live == {i \in Ids : users[i] # NoUser}

\* User.findOne({ email })
FindByEmail(email) ==
  IF \E i \in Live : users[i].email = email
  THEN LET i == CHOOSE j \in Live : users[j].email = email
       IN [id |-> i, doc |-> users[i]]
  ELSE NoUser

\* User.findOne({ $or: [{ email }, { username }] })
FindByEmailOrUsername(email, username) ==
  IF \E i \in Live : users[i].email = email \/ users[i].username = username
  THEN LET i == CHOOSE j \in Live : users[j].email = email \/ users[j].username = username
       IN [id |-> i, doc |-> users[i]]
  ELSE NoUser

\* the unique indexes of the User schema on email and username
DuplicateKey(username, email) ==
  \E i \in Live : users[i].email = email \/ users[i].username = username

(* ---------------------------- session tokens --------------------------- *)
\* the time span jsonwebtoken derives from expiresIn, in seconds
Timespan(expiresIn) ==
  CASE expiresIn = "10m" -> 10 * 60
    [] expiresIn = "7d" -> 7 * 24 * 60 * 60

\* process.env.JWT_EXPIRES_IN || '7d'
ExpiresIn == IF env.JWT_EXPIRES_IN = "" THEN "7d" ELSE env.JWT_EXPIRES_IN

HS256_KeyOnly(secret, payload) == <<secret>>

\* the signature over a payload under a secret
HS256(secret, payload) == <<secret, payload>>

Sign_Late(id, role) ==
  LET payload == [id |-> id, role |-> role, iat |-> now \div 1000,
                  exp |-> (now \div 1000) + Timespan(ExpiresIn) + 1]
  IN [payload |-> payload, sig |-> HS256(JWT_SECRET, payload)]

\* jwt.sign({ id, role }, process.env.JWT_SECRET, { expiresIn })
Sign(id, role) ==
  LET payload == [id |-> id, role |-> role, iat |-> now \div 1000,
                  exp |-> (now \div 1000) + Timespan(ExpiresIn)]
  IN [payload |-> payload, sig |-> HS256(JWT_SECRET, payload)]

Malformed == [none |-> "malformed"]

\* jwt.verify(token, process.env.JWT_SECRET)
Verify(token) ==
  IF token = NoToken THEN [ok |-> FALSE, error |-> "NoToken"]
  ELSE IF token = Malformed THEN [ok |-> FALSE, error |-> "Malformed"]
  ELSE IF token.sig # HS256(JWT_SECRET, token.payload)
  THEN [ok |-> FALSE, error |-> "SignatureInvalid"]
  ELSE IF now \div 1000 >= token.payload.exp THEN [ok |-> FALSE, error |-> "Expired"]
  ELSE [ok |-> TRUE, id |-> token.payload.id, role |-> token.payload.role]

(* ----------------------------- rate limiter ---------------------------- *)
\* one hit on a counter of express-rate-limit: a new window starts with the
\* first request after the previous window has elapsed
Hit(c, max) ==
  IF c.hits = 0 \/ c.resetTime <= now
  THEN [hits |-> 1, resetTime |-> now + windowMs]
  ELSE [hits |-> Min(c.hits + 1, max + 1), resetTime |-> c.resetTime]

IsOtpPath_Every(path) == TRUE

\* app.use('/api/auth/verify-otp', otpLimiter)
IsOtpPath(path) == path = "/api/auth/verify-otp"

ZeroCounter == [hits |-> 0, resetTime |-> 0]

CounterOf(ip, class) == IF ip = Client THEN rate[class] ELSE ZeroCounter

GeneralBlocked(ip) == Hit(CounterOf(ip, "general"), limiterMax).hits > limiterMax

OtpBlocked(ip, path) ==
  /\ IsOtpPath(path)
  /\ ~GeneralBlocked(ip)
  /\ Hit(CounterOf(ip, "otp"), otpLimiterMax).hits > otpLimiterMax

Blocked(ip, path) == GeneralBlocked(ip) \/ OtpBlocked(ip, path)

\* app.use('/api/', limiter); app.use('/api/auth/verify-otp', otpLimiter)
RateAfter(ip, path) ==
  IF ip # Client THEN rate
  ELSE [general |-> Hit(rate.general, limiterMax),
        otp |-> IF IsOtpPath(path) /\ ~GeneralBlocked(ip)
                THEN Hit(rate.otp, otpLimiterMax) ELSE rate.otp]

LimitMessage(ip, path) ==
  IF GeneralBlocked(ip) THEN "Too many requests from this IP, please try again later."
  ELSE "Too many OTP requests, please try again later."

\* requests of Client that reached a handler, counted per window of 15 minutes
ReachedAfter(ip, path) ==
  LET gFresh == rate.general.hits = 0 \/ rate.general.resetTime <= now
      oFresh == rate.otp.hits = 0 \/ rate.otp.resetTime <= now
      r0 == [verify |-> IF IsOtpPath(path) /\ ~GeneralBlocked(ip) /\ oFresh
                        THEN 0 ELSE reached.verify,
             resend |-> IF gFresh THEN 0 ELSE reached.resend]
  IN IF ip # Client THEN reached
     ELSE [verify |-> IF IsOtpPath(path) /\ ~Blocked(ip, path)
                      THEN Min(r0.verify + 1, otpLimiterMax + 1) ELSE r0.verify,
           resend |-> IF path = "/api/auth/resend-otp" /\ ~Blocked(ip, path)
                      THEN Min(r0.resend + 1, otpLimiterMax + 1) ELSE r0.resend]

(* ------------------------------ responses ------------------------------ *)
Resp(op, email, status, message) ==
  [op |-> op, email |-> email, status |-> status, message |-> message,
   requiresVerification |-> FALSE, token |-> NoToken, data |-> {}]

\* what the caller can see of a response
Outward(r) ==
  [status |-> r.status, message |-> r.message,
   requiresVerification |-> r.requiresVerification, hasToken |-> r.token # NoToken]

\* the response is sent and the request is over
Answer(p, r) ==
  /\ res' = r
  /\ pc' = [pc EXCEPT ![p] = "idle"]
  /\ loc' = [loc EXCEPT ![p] = NoLoc]

\* the request is answered without any effect on the stores
Reply(p, r) ==
  /\ Answer(p, r)
  /\ UNCHANGED stores

\* the handler waits for its next database operation
Await(p, label, locals) ==
  /\ pc' = [pc EXCEPT ![p] = label]
  /\ loc' = [loc EXCEPT ![p] = locals]
  /\ UNCHANGED res

\* the request passes the limiters, which count it
Arrive(ip, path) ==
  /\ rate' = RateAfter(ip, path)
  /\ reached' = ReachedAfter(ip, path)
  /\ UNCHANGED <<now, env>>

Continue == UNCHANGED <<now, env, rate, reached>>

(* ------------------------------- clock --------------------------------- *)
Tick(stepMs, maxTicks) ==
  /\ now + stepMs <= maxTicks * stepMs
  /\ now' = now + stepMs
  /\ UNCHANGED <<env, rate, reached, pc, loc, res>>
  /\ UNCHANGED stores

(* ----------------------- POST /api/auth/verify-otp --------------------- *)
VerifyOtpStart(p, ip, email, otp) ==
  /\ pc[p] = "idle"
  /\ Arrive(ip, "/api/auth/verify-otp")
  /\ IF Blocked(ip, "/api/auth/verify-otp")
     THEN Reply(p, Resp("verify-otp", email, 429, LimitMessage(ip, "/api/auth/verify-otp")))
     ELSE IF email = "" \/ otp = ""
     THEN Reply(p, Resp("verify-otp", email, 400, "Email and OTP are required"))
     ELSE /\ Await(p, "verify", [email |-> email, otp |-> otp, user |-> FindByEmail(email)])
          /\ UNCHANGED stores

\* if (!user.otp || user.otp.code !== otp)
OtpMatches_Any(user, otp) == user.doc.otp # NoOtp

OtpMatches(user, otp) == user.doc.otp # NoOtp /\ user.doc.otp.code = otp

\* if (user.otp.expiresAt < new Date())
OtpExpired_Never(user) == FALSE

OtpExpired(user) == user.doc.otp.expiresAt < now

VerifyOtpFinish(p) ==
  /\ pc[p] = "verify"
  /\ Continue
  /\ LET user == loc[p].user
         email == loc[p].email
     IN IF user = NoUser
        THEN Reply(p, Resp("verify-otp", email, 404, "User not found"))
        ELSE IF ~OtpMatches(user, loc[p].otp)
        THEN Reply(p, Resp("verify-otp", email, 400, "Invalid OTP"))
        ELSE IF OtpExpired(user)
        THEN Reply(p, Resp("verify-otp", email, 400, "OTP has expired"))
        ELSE IF users[user.id] = NoUser
        THEN Reply(p, Resp("verify-otp", email, 500,
                           "Internal server error during OTP verification"))
        ELSE /\ users' = [users EXCEPT ![user.id].isVerified = TRUE,
                                       ![user.id].otp = NoOtp]
             /\ Answer(p, [Resp("verify-otp", email, 200, "Account verified successfully")
                           EXCEPT !.token = Sign(user.id, user.doc.role)])
             /\ jar' = [jar EXCEPT ![user.id] = Sign(user.id, user.doc.role)]
             /\ UNCHANGED <<nextId, otpStore, mail, posts, nextPost>>

(* ----------------------- POST /api/auth/resend-otp --------------------- *)
ResendOtpStart(p, ip, email) ==
  /\ pc[p] = "idle"
  /\ Arrive(ip, "/api/auth/resend-otp")
  /\ IF Blocked(ip, "/api/auth/resend-otp")
     THEN Reply(p, Resp("resend-otp", email, 429, LimitMessage(ip, "/api/auth/resend-otp")))
     ELSE IF email = ""
     THEN Reply(p, Resp("resend-otp", email, 400, "Email is required"))
     ELSE /\ Await(p, "resend", [email |-> email, user |-> FindByEmail(email)])
          /\ UNCHANGED stores

\* { code: otpCode, expiresAt: new Date(Date.now() + 10 * 60 * 1000) }
NewChallenge(otpCode) == [code |-> otpCode, expiresAt |-> now + OTP_TTL]

\* user.otp = { ... }; await user.save()
SaveOtp_KeepFirst(id, challenge) ==
  IF users[id].otp # NoOtp THEN users ELSE [users EXCEPT ![id].otp = challenge]

SaveOtp(id, challenge) == [users EXCEPT ![id].otp = challenge]

ResendOtpSave(p, otpCode) ==
  /\ pc[p] = "resend"
  /\ Continue
  /\ LET user == loc[p].user
         email == loc[p].email
     IN IF user = NoUser
        THEN Reply(p, Resp("resend-otp", email, 404, "User not found"))
        ELSE IF user.doc.isVerified
        THEN Reply(p, Resp("resend-otp", email, 400, "User is already verified"))
        ELSE IF users[user.id] = NoUser
        THEN Reply(p, Resp("resend-otp", email, 500,
                           "Internal server error during OTP resend"))
        ELSE /\ users' = SaveOtp(user.id, NewChallenge(otpCode))
             /\ Await(p, "resend_send", [email |-> email, otpCode |-> otpCode])
             /\ UNCHANGED <<nextId, otpStore, mail, jar, posts, nextPost>>

sendOTP_Lost(email, otpCode, delivered) ==
  /\ otpStore' = IF delivered THEN [otpStore EXCEPT ![email] = NewChallenge(otpCode)]
                 ELSE otpStore
  /\ mail' = IF delivered THEN [to |-> email, code |-> otpCode, delivered |-> delivered]
             ELSE mail

\* services/otpService.js sendOTP: the Map entry is written before the mail is
\* sent; a failed delivery is caught inside sendOTP
sendOTP(email, otpCode, delivered) ==
  /\ otpStore' = [otpStore EXCEPT ![email] = NewChallenge(otpCode)]
  /\ mail' = [to |-> email, code |-> otpCode, delivered |-> delivered]

ResendOtpSend(p, delivered) ==
  /\ pc[p] = "resend_send"
  /\ Continue
  /\ sendOTP(loc[p].email, loc[p].otpCode, delivered)
  /\ Answer(p, Resp("resend-otp", loc[p].email, 200, "OTP resent successfully"))
  /\ UNCHANGED <<users, nextId, jar, posts, nextPost>>

(* ------------------------ POST /api/auth/register ---------------------- *)
\* ids still free for the registrations in flight
IdAvailable == nextId + Cardinality({q \in Procs : pc[q] = "register"}) <= MaxIds

RegisterStart(p, ip, valid, username, email, password, role) ==
  /\ pc[p] = "idle"
  /\ IdAvailable
  /\ Arrive(ip, "/api/auth/register")
  /\ IF Blocked(ip, "/api/auth/register")
     THEN Reply(p, Resp("register", email, 429, LimitMessage(ip, "/api/auth/register")))
     ELSE IF ~valid
     THEN Reply(p, Resp("register", email, 400, "Registration validation failed"))
     ELSE IF role = "admin" /\ env.NODE_ENV = "production"
     THEN Reply(p, Resp("register", email, 403, "Admin registration is not allowed"))
     ELSE /\ Await(p, "register",
                   [username |-> username, email |-> email, password |-> password,
                    role |-> role,
                    existingUser |-> FindByEmailOrUsername(email, username)])
          /\ UNCHANGED stores

RegisterCreate(p) ==
  /\ pc[p] = "register"
  /\ Continue
  /\ LET l == loc[p]
     IN IF l.existingUser # NoUser
        THEN Reply(p, Resp("register", l.email, 400,
                           "User with this email or username already exists"))
        ELSE IF DuplicateKey(l.username, l.email)
        THEN Reply(p, Resp("register", l.email, 500,
                           "Internal server error during registration"))
        ELSE /\ users' = [users EXCEPT ![nextId] =
                            NewUser(l.username, l.email, l.password, l.role)]
             /\ nextId' = nextId + 1
             /\ Await(p, "register_save", [email |-> l.email, id |-> nextId])
             /\ UNCHANGED <<otpStore, mail, jar, posts, nextPost>>

RegisterSave(p, otpCode) ==
  /\ pc[p] = "register_save"
  /\ Continue
  /\ LET l == loc[p]
     IN IF users[l.id] = NoUser
        THEN Reply(p, Resp("register", l.email, 500,
                           "Internal server error during registration"))
        ELSE /\ users' = SaveOtp(l.id, NewChallenge(otpCode))
             /\ Await(p, "register_send", [email |-> l.email, otpCode |-> otpCode])
             /\ UNCHANGED <<nextId, otpStore, mail, jar, posts, nextPost>>

\* User.create rejects: the catch block answers, nothing was inserted
RegisterCreateFails(p) ==
  /\ pc[p] = "register"
  /\ loc[p].existingUser = NoUser
  /\ Continue
  /\ Reply(p, Resp("register", loc[p].email, 500,
                   "Internal server error during registration"))

\* newUser.save() rejects after User.create has inserted the identity: the
\* catch block answers and undoes nothing
RegisterSaveFails(p) ==
  /\ pc[p] = "register_save"
  /\ Continue
  /\ Reply(p, Resp("register", loc[p].email, 500,
                   "Internal server error during registration"))

RegisterSend(p, delivered) ==
  /\ pc[p] = "register_send"
  /\ Continue
  /\ sendOTP(loc[p].email, loc[p].otpCode, delivered)
  /\ Answer(p, Resp("register", loc[p].email, 201,
       "User registered successfully. Please check your email for OTP verification."))
  /\ UNCHANGED <<users, nextId, jar, posts, nextPost>>

(* -------------------------- POST /api/auth/login ----------------------- *)
LoginStart(p, ip, valid, email, password) ==
  /\ pc[p] = "idle"
  /\ Arrive(ip, "/api/auth/login")
  /\ IF Blocked(ip, "/api/auth/login")
     THEN Reply(p, Resp("login", email, 429, LimitMessage(ip, "/api/auth/login")))
     ELSE IF ~valid
     THEN Reply(p, Resp("login", email, 400, "Login validation failed"))
     ELSE /\ Await(p, "login", [email |-> email, password |-> password,
                                user |-> FindByEmail(email)])
          /\ UNCHANGED stores

\* if (!user || !(await user.correctPassword(password, user.password)))
BadCredentials(user, password) ==
  user = NoUser \/ ~correctPassword(password, user.doc.password)

BadCredentialsMessage_Reveal(user) ==
  IF user = NoUser THEN "User not found" ELSE "Incorrect email or password"

BadCredentialsMessage(user) == "Incorrect email or password"

\* if (!user.isVerified)
NeedsVerification_Never(user) == FALSE

NeedsVerification(user) == ~user.doc.isVerified

LoginFinish(p) ==
  /\ pc[p] = "login"
  /\ Continue
  /\ LET user == loc[p].user
         email == loc[p].email
     IN IF BadCredentials(user, loc[p].password)
        THEN Reply(p, Resp("login", email, 401, BadCredentialsMessage(user)))
        ELSE IF NeedsVerification(user)
        THEN Reply(p, [Resp("login", email, 401,
                            "Please verify your account with OTP first")
                       EXCEPT !.requiresVerification = TRUE])
        ELSE /\ Answer(p, [Resp("login", email, 200, "Logged in successfully")
                           EXCEPT !.token = Sign(user.id, user.doc.role)])
             /\ jar' = [jar EXCEPT ![user.id] = Sign(user.id, user.doc.role)]
             /\ UNCHANGED <<users, nextId, otpStore, mail, posts, nextPost>>

(* ------------------------- POST /api/auth/logout ----------------------- *)
Logout(p, ip) ==
  /\ pc[p] = "idle"
  /\ Arrive(ip, "/api/auth/logout")
  /\ IF Blocked(ip, "/api/auth/logout")
     THEN Reply(p, Resp("logout", "", 429, LimitMessage(ip, "/api/auth/logout")))
     ELSE Reply(p, Resp("logout", "", 200, "Logged out successfully"))

(* ------------------------- access control ------------------------------ *)
\* middleware/auth.js protect: the token of the request is verified and
\* { id, role } is attached to the request as req.user
protect_Current(token) ==
  IF Verify(token).ok
       /\ (users[Verify(token).id] = NoUser
             \/ users[Verify(token).id].role # Verify(token).role)
  THEN [ok |-> FALSE, error |-> "Revoked"]
  ELSE Verify(token)

protect(token) == Verify(token)

\* middleware/auth.js restrictTo(...roles)
restrictTo(roles, user) == user.role \in roles

\* router.use(protect, restrictTo('admin'))
AdminRoles == {"admin"}

PostRoles_Everyone == {"admin", "author", "reader"}
\* restrictTo('admin', 'author') on create, update, delete and my-posts
PostRoles == {"admin", "author"}

\* the outcome of the chain protect, restrictTo(roles) for a token
Gate(token, roles) ==
  IF ~protect(token).ok THEN 401
  ELSE IF ~restrictTo(roles, protect(token)) THEN 403
  ELSE 200

GateMessage(status) ==
  IF status = 401 THEN "authentication failure" ELSE "authorization failure"

\* tokens a client can put on a request: none, garbage, a token it was given,
\* a given token with the role rewritten, or a token signed with another secret
Tampered(token) == [token EXCEPT !.payload.role = "admin"]

Forged(id) ==
  LET payload == [id |-> id, role |-> "admin", iat |-> now \div 1000,
                  exp |-> (now \div 1000) + Timespan("7d")]
  IN [payload |-> payload, sig |-> HS256("guess", payload)]

Held == {jar[i] : i \in Ids} \ {NoToken}

Presentable == {NoToken, Malformed} \cup Held \cup {Tampered(t) : t \in Held}
                 \cup {Forged(1)}

(* ------------------------------ /api/admin ----------------------------- *)
IsSelf_Never(id, user) == FALSE

\* if (req.params.id === req.user.id)
IsSelf(id, user) == id = user.id

\* GET /api/admin/users
AdminGetUsers(p, ip, token) ==
  /\ pc[p] = "idle"
  /\ Arrive(ip, "/api/admin/users")
  /\ IF Blocked(ip, "/api/admin/users")
     THEN Reply(p, Resp("admin-users", "", 429, LimitMessage(ip, "/api/admin/users")))
     ELSE IF Gate(token, AdminRoles) # 200
     THEN Reply(p, Resp("admin-users", "", Gate(token, AdminRoles),
                        GateMessage(Gate(token, AdminRoles))))
     ELSE Reply(p, Resp("admin-users", "", 200, "success"))

\* GET /api/admin/posts
AdminGetPosts(p, ip, token) ==
  /\ pc[p] = "idle"
  /\ Arrive(ip, "/api/admin/posts")
  /\ IF Blocked(ip, "/api/admin/posts")
     THEN Reply(p, Resp("admin-posts", "", 429, LimitMessage(ip, "/api/admin/posts")))
     ELSE IF Gate(token, AdminRoles) # 200
     THEN Reply(p, Resp("admin-posts", "", Gate(token, AdminRoles),
                        GateMessage(Gate(token, AdminRoles))))
     ELSE Reply(p, [Resp("admin-posts", "", 200, "success")
                      EXCEPT !.data = {posts[i] : i \in PostIds} \ {NoPost}])

\* DELETE /api/admin/users/:id
AdminDeleteUser(p, ip, token, id) ==
  /\ pc[p] = "idle"
  /\ Arrive(ip, "/api/admin/users/:id")
  /\ IF Blocked(ip, "/api/admin/users/:id")
     THEN Reply(p, Resp("admin-delete", "", 429, LimitMessage(ip, "/api/admin/users/:id")))
     ELSE IF Gate(token, AdminRoles) # 200
     THEN Reply(p, Resp("admin-delete", "", Gate(token, AdminRoles),
                        GateMessage(Gate(token, AdminRoles))))
     ELSE IF IsSelf(id, protect(token))
     THEN Reply(p, Resp("admin-delete", "", 400, "Cannot delete your own account"))
     ELSE IF id \notin Live
     THEN Reply(p, Resp("admin-delete", "", 404, "User not found"))
     ELSE /\ users' = [users EXCEPT ![id] = NoUser]
          /\ Answer(p, Resp("admin-delete", "", 200, "User deleted successfully"))
          /\ UNCHANGED <<nextId, otpStore, mail, jar, posts, nextPost>>

\* PATCH /api/admin/users/:id/role
AdminChangeRole(p, ip, token, id, role) ==
  /\ pc[p] = "idle"
  /\ Arrive(ip, "/api/admin/users/:id/role")
  /\ IF Blocked(ip, "/api/admin/users/:id/role")
     THEN Reply(p, Resp("admin-role", "", 429,
                        LimitMessage(ip, "/api/admin/users/:id/role")))
     ELSE IF Gate(token, AdminRoles) # 200
     THEN Reply(p, Resp("admin-role", "", Gate(token, AdminRoles),
                        GateMessage(Gate(token, AdminRoles))))
     ELSE IF role \notin {"admin", "author", "reader"}
     THEN Reply(p, Resp("admin-role", "", 400, "Invalid role"))
     ELSE IF IsSelf(id, protect(token))
     THEN Reply(p, Resp("admin-role", "", 400, "Cannot change your own role"))
     ELSE IF id \notin Live
     THEN Reply(p, Resp("admin-role", "", 404, "User not found"))
     ELSE /\ users' = [users EXCEPT ![id].role = role]
          /\ Answer(p, Resp("admin-role", "", 200, "User role updated successfully"))
          /\ UNCHANGED <<nextId, otpStore, mail, jar, posts, nextPost>>

(* ------------------------------ /api/posts ----------------------------- *)
AlphaNum == {"a", "b", "A", "B", "1", "2", "3", "4", "5", "6", "7", "8", "9"}

\* String.prototype.toLowerCase
ToLowerCase(t) ==
  [i \in 1..Len(t) |-> CASE t[i] = "A" -> "a" [] t[i] = "B" -> "b" [] OTHER -> t[i]]

\* .replace(/[^a-zA-Z0-9]/g, '-')
DashOthers(t) == [i \in 1..Len(t) |-> IF t[i] \in AlphaNum THEN t[i] ELSE "-"]

\* .replace(/-+/g, '-')
RECURSIVE CollapseDashes(_)
CollapseDashes(t) ==
  IF Len(t) < 2 THEN t
  ELSE IF t[1] = "-" /\ t[2] = "-" THEN CollapseDashes(Tail(t))
  ELSE <<t[1]>> \o CollapseDashes(Tail(t))

Slugify(title) == CollapseDashes(DashOthers(ToLowerCase(title)))

\* `${slug}-${counter}`
Digits == <<"1", "2", "3", "4", "5", "6", "7", "8", "9">>

WithCounter(slug, counter) == slug \o <<"-", Digits[counter]>>

LivePosts == {i \in PostIds : posts[i] # NoPost}

SlugTaken_Never(slug, id) == FALSE

\* Post.findOne({ slug }) and Post.findOne({ slug, _id: { $ne: id } })
SlugTaken(slug, id) == \E i \in LivePosts : i # id /\ posts[i].slug = slug

Find_All(filter) == {posts[i] : i \in LivePosts}

\* Post.find(filter): the stored posts that agree with the filter
Find(filter) ==
  {posts[i] : i \in {j \in LivePosts :
                       \A k \in DOMAIN filter : posts[j][k] = filter[k]}}

\* ids still free for the creations in flight
PostAvailable ==
  nextPost + Cardinality({q \in Procs : pc[q] = "post_slug" /\ loc[q].id = 0}) <= MaxPosts

\* POST /api/posts
PostCreateStart(p, ip, token, valid, title, status) ==
  /\ pc[p] = "idle"
  /\ PostAvailable
  /\ Arrive(ip, "/api/posts")
  /\ IF Blocked(ip, "/api/posts")
     THEN Reply(p, Resp("post-create", "", 429, LimitMessage(ip, "/api/posts")))
     ELSE IF Gate(token, PostRoles) # 200
     THEN Reply(p, Resp("post-create", "", Gate(token, PostRoles),
                        GateMessage(Gate(token, PostRoles))))
     ELSE IF ~valid
     THEN Reply(p, Resp("post-create", "", 400, "Validation failed"))
     ELSE /\ Await(p, "post_slug",
                   [id |-> 0, title |-> title, status |-> status,
                    author |-> protect(token).id, slug |-> Slugify(title),
                    existingPost |-> SlugTaken(Slugify(title), 0), counter |-> 1])
          /\ UNCHANGED stores

\* one round of while (existingPost) { ... }, in create and in update
PostSlugNext(p) ==
  /\ pc[p] = "post_slug"
  /\ loc[p].existingPost
  /\ loc[p].counter <= Len(Digits)
  /\ Continue
  /\ Await(p, "post_slug",
           [loc[p] EXCEPT !.slug = WithCounter(loc[p].slug, loc[p].counter),
                          !.existingPost =
                             SlugTaken(WithCounter(loc[p].slug, loc[p].counter), loc[p].id),
                          !.counter = loc[p].counter + 1])
  /\ UNCHANGED stores

PostCreateFinish(p) ==
  /\ pc[p] = "post_slug"
  /\ ~loc[p].existingPost
  /\ loc[p].id = 0
  /\ Continue
  /\ IF SlugTaken(loc[p].slug, 0)
     THEN Reply(p, Resp("post-create", "", 400, "Post with this title already exists"))
     ELSE /\ posts' = [posts EXCEPT ![nextPost] =
                         [title |-> loc[p].title, slug |-> loc[p].slug,
                          status |-> loc[p].status, author |-> loc[p].author]]
          /\ nextPost' = nextPost + 1
          /\ Answer(p, Resp("post-create", "", 201, "Post created successfully"))
          /\ UNCHANGED <<users, nextId, otpStore, mail, jar>>

NotOwnerNorAdmin_Never(post, user) == FALSE

\* if (post.author.toString() !== req.user.id && req.user.role !== 'admin')
NotOwnerNorAdmin(post, user) == post.author # user.id /\ user.role # "admin"

\* PUT /api/posts/:id
PostUpdateStart(p, ip, token, valid, id, title, status) ==
  /\ pc[p] = "idle"
  /\ Arrive(ip, "/api/posts/:id")
  /\ IF Blocked(ip, "/api/posts/:id")
     THEN Reply(p, Resp("post-update", "", 429, LimitMessage(ip, "/api/posts/:id")))
     ELSE IF Gate(token, PostRoles) # 200
     THEN Reply(p, Resp("post-update", "", Gate(token, PostRoles),
                        GateMessage(Gate(token, PostRoles))))
     ELSE IF ~valid
     THEN Reply(p, Resp("post-update", "", 400, "Validation failed"))
     ELSE /\ Await(p, "post_update",
                   [id |-> id, title |-> title, status |-> status,
                    user |-> protect(token), post |-> posts[id]])
          /\ UNCHANGED stores

PostUpdateCheck(p) ==
  /\ pc[p] = "post_update"
  /\ Continue
  /\ LET l == loc[p]
     IN IF l.post = NoPost
        THEN Reply(p, Resp("post-update", "", 404, "Post not found"))
        ELSE IF NotOwnerNorAdmin(l.post, l.user)
        THEN Reply(p, Resp("post-update", "", 403, "You can only update your own posts"))
        ELSE IF l.title # l.post.title
        THEN /\ Await(p, "post_slug",
                      [id |-> l.id, title |-> l.title, status |-> l.status,
                       author |-> l.post.author, slug |-> Slugify(l.title),
                       existingPost |-> SlugTaken(Slugify(l.title), l.id), counter |-> 1])
             /\ UNCHANGED stores
        ELSE /\ Await(p, "post_put",
                      [id |-> l.id, title |-> l.title, status |-> l.status,
                       slug |-> l.post.slug])
             /\ UNCHANGED stores

\* Post.findByIdAndUpdate(req.params.id, req.body, ...)
PostUpdateFinish(p) ==
  /\ \/ pc[p] = "post_put"
     \/ pc[p] = "post_slug" /\ ~loc[p].existingPost /\ loc[p].id # 0
  /\ Continue
  /\ LET l == loc[p]
     IN IF posts[l.id] = NoPost
        THEN Reply(p, Resp("post-update", "", 200, "Post updated successfully"))
        ELSE IF pc[p] = "post_slug" /\ SlugTaken(l.slug, l.id)
        THEN Reply(p, Resp("post-update", "", 500, "Error updating post"))
        ELSE /\ posts' = [posts EXCEPT ![l.id].title = l.title,
                                       ![l.id].status = l.status,
                                       ![l.id].slug = IF pc[p] = "post_slug"
                                                      THEN l.slug ELSE @]
             /\ Answer(p, Resp("post-update", "", 200, "Post updated successfully"))
             /\ UNCHANGED <<users, nextId, otpStore, mail, jar, nextPost>>

\* DELETE /api/posts/:id
PostDeleteStart(p, ip, token, id) ==
  /\ pc[p] = "idle"
  /\ Arrive(ip, "/api/posts/:id")
  /\ IF Blocked(ip, "/api/posts/:id")
     THEN Reply(p, Resp("post-delete", "", 429, LimitMessage(ip, "/api/posts/:id")))
     ELSE IF Gate(token, PostRoles) # 200
     THEN Reply(p, Resp("post-delete", "", Gate(token, PostRoles),
                        GateMessage(Gate(token, PostRoles))))
     ELSE /\ Await(p, "post_delete",
                   [id |-> id, user |-> protect(token), post |-> posts[id]])
          /\ UNCHANGED stores

PostDeleteFinish(p) ==
  /\ pc[p] = "post_delete"
  /\ Continue
  /\ LET l == loc[p]
     IN IF l.post = NoPost
        THEN Reply(p, Resp("post-delete", "", 404, "Post not found"))
        ELSE IF NotOwnerNorAdmin(l.post, l.user)
        THEN Reply(p, Resp("post-delete", "", 403, "You can only delete your own posts"))
        ELSE /\ posts' = [posts EXCEPT ![l.id] = NoPost]
             /\ Answer(p, Resp("post-delete", "", 200, "Post deleted successfully"))
             /\ UNCHANGED <<users, nextId, otpStore, mail, jar, nextPost>>

\* GET /api/posts/user/my-posts
MyPosts(p, ip, token) ==
  /\ pc[p] = "idle"
  /\ Arrive(ip, "/api/posts/user/my-posts")
  /\ IF Blocked(ip, "/api/posts/user/my-posts")
     THEN Reply(p, Resp("my-posts", "", 429, LimitMessage(ip, "/api/posts/user/my-posts")))
     ELSE IF Gate(token, PostRoles) # 200
     THEN Reply(p, Resp("my-posts", "", Gate(token, PostRoles),
                        GateMessage(Gate(token, PostRoles))))
     ELSE Reply(p, [Resp("my-posts", "", 200, "success")
                      EXCEPT !.data = Find([author |-> protect(token).id])])

MaxViews == 1

\* post.views || 0
Views(post) == IF "views" \in DOMAIN post THEN post.views ELSE 0

\* GET /api/posts
GetPosts(p, ip) ==
  /\ pc[p] = "idle"
  /\ Arrive(ip, "/api/posts")
  /\ IF Blocked(ip, "/api/posts")
     THEN Reply(p, Resp("posts", "", 429, LimitMessage(ip, "/api/posts")))
     ELSE Reply(p, [Resp("posts", "", 200, "success")
                      EXCEPT !.data = Find([status |-> "published"])])

\* GET /api/posts/:slug
GetPostStart(p, ip, slug) ==
  /\ pc[p] = "idle"
  /\ \A i \in LivePosts : Views(posts[i]) < MaxViews
  /\ Arrive(ip, "/api/posts/:slug")
  /\ IF Blocked(ip, "/api/posts/:slug")
     THEN Reply(p, Resp("post", "", 429, LimitMessage(ip, "/api/posts/:slug")))
     ELSE IF Find([slug |-> slug, status |-> "published"]) = {}
     THEN Reply(p, Resp("post", "", 404, "Post not found"))
     ELSE /\ \E i \in LivePosts :
               /\ posts[i].slug = slug /\ posts[i].status = "published"
               /\ Await(p, "post_view", [id |-> i, post |-> posts[i]])
          /\ UNCHANGED stores

\* post.views = (post.views || 0) + 1; await post.save(): the save writes the
\* one modified path, and fails when the document is gone
GetPostFinish(p) ==
  /\ pc[p] = "post_view"
  /\ Continue
  /\ LET l == loc[p]
         post == [views |-> Views(l.post) + 1] @@ l.post
     IN IF posts[l.id] = NoPost
        THEN Reply(p, Resp("post", "", 500, "Error fetching post"))
        ELSE /\ posts' = [posts EXCEPT ![l.id] = [views |-> post.views] @@ posts[l.id]]
             /\ Answer(p, [Resp("post", "", 200, "success") EXCEPT !.data = {post}])
             /\ UNCHANGED <<users, nextId, otpStore, mail, jar, nextPost>>

(* --------------------------- specification ----------------------------- *)
\* seedAdmin.js has created the administrator
SeededUsers ==
  [i \in Ids |-> IF i = 1
                 THEN [NewUser(ADMIN_USERNAME, ADMIN_EMAIL, ADMIN_PASSWORD, "admin")
                       EXCEPT !.isVerified = TRUE]
                 ELSE NoUser]

InitWith(e) ==
  /\ now = 0
  /\ env = e
  /\ users = SeededUsers
  /\ nextId = 2
  /\ otpStore = [a \in Emails |-> NoOtp]
  /\ mail = NoMail
  /\ rate = [general |-> ZeroCounter, otp |-> ZeroCounter]
  /\ reached = [verify |-> 0, resend |-> 0]
  /\ pc = [p \in Procs |-> "idle"]
  /\ loc = [p \in Procs |-> NoLoc]
  /\ res = NoRes
  /\ posts = [i \in PostIds |-> NoPost]
  /\ nextPost = 1

DefaultEnv == [NODE_ENV |-> "production", JWT_EXPIRES_IN |-> ""]

\* the administrator has logged in: the client holds the token of that login
AdminLoggedIn == jar = [i \in Ids |-> IF i = 1 THEN Sign(1, "admin") ELSE NoToken]

Step(p) ==
  \/ VerifyOtpFinish(p)
  \/ \E otpCode \in Codes : ResendOtpSave(p, otpCode)
  \/ ResendOtpSend(p, TRUE)
  \/ RegisterCreate(p)
  \/ \E otpCode \in Codes : RegisterSave(p, otpCode)
  \/ RegisterSend(p, TRUE)
  \/ LoginFinish(p)

(* Registration, verification and login of one account, with the           *)
(* administrator changing its role; every request comes from a new address. *)
Init ==
  /\ InitWith(DefaultEnv)
  /\ AdminLoggedIn

Next ==
  \/ Tick(TickMs, MaxClockTicks)
  \/ \E p \in Procs :
       \/ \E otp \in Codes : VerifyOtpStart(p, FreshIp, "alice@x.com", otp)
       \/ ResendOtpStart(p, FreshIp, "alice@x.com")
       \/ RegisterStart(p, FreshIp, TRUE, "alice", "alice@x.com", "pw1", "reader")
       \/ \E password \in Passwords : LoginStart(p, FreshIp, TRUE, "alice@x.com", password)
       \/ AdminChangeRole(p, FreshIp, jar[1], 2, "author")
       \/ Logout(p, FreshIp)
  \/ \E p \in Procs : Step(p)

Spec == Init /\ [][Next]_vars

(* Throttling: the requests of the address Client, for an account that was  *)
(* registered from another address at time 0 and holds its first challenge. *)
(* The walk is cut after MaxHits requests per window, or starts one request *)
(* below the ceiling of the general limiter.                                *)
Registered ==
  [SeededUsers EXCEPT ![2] =
     [NewUser("alice", "alice@x.com", "pw1", "reader")
        EXCEPT !.otp = [code |-> "111111", expiresAt |-> OTP_TTL]]]

InitRegistered(general) ==
  /\ now = 0
  /\ env = DefaultEnv
  /\ users = Registered
  /\ nextId = 3
  /\ otpStore = [a \in Emails |-> IF a = "alice@x.com"
                                  THEN [code |-> "111111", expiresAt |-> OTP_TTL]
                                  ELSE NoOtp]
  /\ mail = [to |-> "alice@x.com", code |-> "111111", delivered |-> TRUE]
  /\ rate = [general |-> general, otp |-> ZeroCounter]
  /\ reached = [verify |-> 0, resend |-> 0]
  /\ pc = [p \in Procs |-> "idle"]
  /\ loc = [p \in Procs |-> NoLoc]
  /\ res = Resp("register", "alice@x.com", 201,
       "User registered successfully. Please check your email for OTP verification.")
  /\ jar = [i \in Ids |-> NoToken]
  /\ posts = [i \in PostIds |-> NoPost]
  /\ nextPost = 1

NearCeiling == [hits |-> limiterMax - 1, resetTime |-> windowMs]

WithinBudget == rate.general.hits < MaxHits \/ rate.general.hits >= limiterMax - 1

InitRate == InitRegistered(ZeroCounter) \/ InitRegistered(NearCeiling)

NextRate ==
  \/ Tick(RateTickMs, MaxRateTicks)
  \/ \E p \in Procs :
       /\ WithinBudget
       /\ \/ \E otp \in Codes : VerifyOtpStart(p, Client, "alice@x.com", otp)
          \/ Logout(p, Client)
  \/ \E p \in Procs : VerifyOtpFinish(p)

SpecRate == InitRate /\ [][NextRate]_vars

NextResend ==
  \/ Tick(RateTickMs, MaxRateTicks)
  \/ \E p \in Procs :
       /\ WithinBudget
       /\ ResendOtpStart(p, Client, "alice@x.com")
  \/ \E p \in Procs :
       \/ \E otpCode \in Codes : ResendOtpSave(p, otpCode)
       \/ ResendOtpSend(p, TRUE)

SpecResend == InitRegistered(ZeroCounter) /\ [][NextResend]_vars

(* Access control: the administrator and one verified reader hold the      *)
(* tokens of their logins at time 0; tokens live 10 minutes.  Requests to   *)
(* the protected routes carry any token a client can present.               *)
ShortEnv == [NODE_ENV |-> "production", JWT_EXPIRES_IN |-> "10m"]

Verified ==
  [SeededUsers EXCEPT ![2] =
     [NewUser("alice", "alice@x.com", "pw1", "reader") EXCEPT !.isVerified = TRUE]]

InitAccess ==
  /\ now = 0
  /\ env = ShortEnv
  /\ users = Verified
  /\ nextId = 3
  /\ otpStore = [a \in Emails |-> IF a = "alice@x.com"
                                  THEN [code |-> "111111", expiresAt |-> OTP_TTL]
                                  ELSE NoOtp]
  /\ mail = [to |-> "alice@x.com", code |-> "111111", delivered |-> TRUE]
  /\ rate = [general |-> ZeroCounter, otp |-> ZeroCounter]
  /\ reached = [verify |-> 0, resend |-> 0]
  /\ pc = [p \in Procs |-> "idle"]
  /\ loc = [p \in Procs |-> NoLoc]
  /\ res = NoRes
  /\ jar = [i \in Ids |-> IF i = 1 THEN Sign(1, "admin")
                          ELSE IF i = 2 THEN Sign(2, "reader") ELSE NoToken]
  /\ posts = [i \in PostIds |-> NoPost]
  /\ nextPost = 1

NextAccess ==
  \/ Tick(TickMs, MaxClockTicks)
  \/ LoginStart(1, FreshIp, TRUE, "alice@x.com", "pw1")
  \/ LoginFinish(1)
  \/ \E token \in Presentable : AdminGetUsers(1, FreshIp, token)
  \/ \E token \in Presentable : AdminDeleteUser(1, FreshIp, token, 2)
  \/ \E token \in Presentable, role \in {"author", "root"} :
       AdminChangeRole(1, FreshIp, token, 2, role)
  \/ \E token \in Presentable, title \in Titles :
       PostCreateStart(1, FreshIp, token, TRUE, title, "draft")
  \/ \E token \in Presentable :
       PostUpdateStart(1, FreshIp, token, TRUE, 1, <<"A">>, "published")
  \/ \E token \in Presentable : PostDeleteStart(1, FreshIp, token, 1)
  \/ \E token \in Presentable : MyPosts(1, FreshIp, token)
  \/ PostSlugNext(1)
  \/ PostCreateFinish(1)
  \/ PostUpdateCheck(1)
  \/ PostUpdateFinish(1)
  \/ PostDeleteFinish(1)

SpecAccess == InitAccess /\ [][NextAccess]_vars

(* Token lifetime: the administrator and one verified reader log in and    *)
(* present the token of their last login on GET /api/admin/users and on    *)
(* GET /api/posts/user/my-posts, with JWT_EXPIRES_IN unset (7d) or 10m.    *)
(* The clock advances by half the lifetime of a token.                     *)
TokenTickMs == (Timespan(ExpiresIn) * 1000) \div 2

InitToken ==
  /\ now = 0
  /\ env \in {DefaultEnv, ShortEnv}
  /\ users = Verified
  /\ nextId = 3
  /\ otpStore = [a \in Emails |-> NoOtp]
  /\ mail = NoMail
  /\ rate = [general |-> ZeroCounter, otp |-> ZeroCounter]
  /\ reached = [verify |-> 0, resend |-> 0]
  /\ pc = [p \in Procs |-> "idle"]
  /\ loc = [p \in Procs |-> NoLoc]
  /\ res = NoRes
  /\ jar = [i \in Ids |-> NoToken]
  /\ posts = [i \in PostIds |-> NoPost]
  /\ nextPost = 1

NextToken ==
  \/ Tick(TokenTickMs, MaxTokenTicks)
  \/ \E p \in Procs :
       \/ LoginStart(p, FreshIp, TRUE, "alice@x.com", "pw1")
       \/ LoginStart(p, FreshIp, TRUE, ADMIN_EMAIL, ADMIN_PASSWORD)
       \/ LoginFinish(p)
       \/ \E token \in Held : AdminGetUsers(p, FreshIp, token)
       \/ \E token \in Held : MyPosts(p, FreshIp, token)

SpecToken == InitToken /\ [][NextToken]_vars

(* Token round trip: the administrator and one verified identity, a reader *)
(* or an author, log in; the tokens they hold, and every alteration of     *)
(* them a client can make, are presented on GET /api/posts/user/my-posts.  *)
Altered(token) ==
  { [token EXCEPT !.payload.role = "admin"],
    [token EXCEPT !.payload.role = "author"],
    [token EXCEPT !.payload.id = 1],
    [token EXCEPT !.payload.id = 2],
    [token EXCEPT !.payload.exp = @ + Timespan(ExpiresIn)],
    [token EXCEPT !.sig = HS256(JWT_SECRET, [token.payload EXCEPT !.iat = @ + 1])],
    [token EXCEPT !.sig = HS256("guess", token.payload)] } \ {token}

InitRound ==
  /\ \E role \in {"reader", "author"} : users = [Verified EXCEPT ![2].role = role]
  /\ now = 0
  /\ env \in {DefaultEnv, ShortEnv}
  /\ nextId = 3
  /\ otpStore = [a \in Emails |-> NoOtp]
  /\ mail = NoMail
  /\ rate = [general |-> ZeroCounter, otp |-> ZeroCounter]
  /\ reached = [verify |-> 0, resend |-> 0]
  /\ pc = [p \in Procs |-> "idle"]
  /\ loc = [p \in Procs |-> NoLoc]
  /\ res = NoRes
  /\ jar = [i \in Ids |-> NoToken]
  /\ posts = [i \in PostIds |-> NoPost]
  /\ nextPost = 1

NextRound ==
  \/ Tick(TokenTickMs, MaxTokenTicks)
  \/ \E p \in Procs :
       \/ LoginStart(p, FreshIp, TRUE, "alice@x.com", "pw1")
       \/ LoginStart(p, FreshIp, TRUE, ADMIN_EMAIL, ADMIN_PASSWORD)
       \/ LoginFinish(p)
       \/ \E token \in Held : MyPosts(p, FreshIp, token)
       \/ \E token \in Held : \E altered \in Altered(token) : MyPosts(p, FreshIp, altered)

SpecRound == InitRound /\ [][NextRound]_vars

(* No revocation: the administrator and one verified author hold the       *)
(* tokens of their logins at time 0 (lifetime 10 minutes).  The             *)
(* administrator changes the author's role or deletes the account, the     *)
(* author logs in again or logs out, and held tokens are presented on      *)
(* GET /api/posts/user/my-posts.                                           *)
InitRevoke ==
  /\ now = 0
  /\ env = ShortEnv
  /\ users = [Verified EXCEPT ![2].role = "author"]
  /\ nextId = 3
  /\ otpStore = [a \in Emails |-> NoOtp]
  /\ mail = NoMail
  /\ rate = [general |-> ZeroCounter, otp |-> ZeroCounter]
  /\ reached = [verify |-> 0, resend |-> 0]
  /\ pc = [p \in Procs |-> "idle"]
  /\ loc = [p \in Procs |-> NoLoc]
  /\ res = NoRes
  /\ jar = [i \in Ids |-> IF i = 1 THEN Sign(1, "admin")
                          ELSE IF i = 2 THEN Sign(2, "author") ELSE NoToken]
  /\ posts = [i \in PostIds |-> NoPost]
  /\ nextPost = 1

NextRevoke ==
  \/ Tick(TokenTickMs, MaxTokenTicks)
  \/ \E p \in Procs :
       \/ Logout(p, FreshIp)
       \/ LoginStart(p, FreshIp, TRUE, "alice@x.com", "pw1")
       \/ LoginFinish(p)
       \/ \E role \in {"reader", "author"} : AdminChangeRole(p, FreshIp, jar[1], 2, role)
       \/ AdminDeleteUser(p, FreshIp, jar[1], 2)
       \/ \E token \in Held : MyPosts(p, FreshIp, token)

SpecRevoke == InitRevoke /\ [][NextRevoke]_vars

(* Registration: register requests for every username, e-mail and role,    *)
(* two of them in flight at a time, in production and in development.      *)
DevEnv == [NODE_ENV |-> "development", JWT_EXPIRES_IN |-> ""]

InitRegister ==
  /\ \E e \in {DefaultEnv, DevEnv} : InitWith(e)
  /\ jar = [i \in Ids |-> NoToken]

NextRegister ==
  \/ Tick(TickMs, MaxClockTicks)
  \/ \E p \in Procs :
       \/ \E valid \in BOOLEAN, username \in Usernames, email \in Emails, role \in Roles :
            RegisterStart(p, FreshIp, valid, username, email, "pw1", role)
       \/ RegisterCreate(p)
       \/ \E otpCode \in Codes : RegisterSave(p, otpCode)
       \/ RegisterSend(p, TRUE)

SpecRegister == InitRegister /\ [][NextRegister]_vars

(* Administration: the administrator and one verified reader hold the      *)
(* tokens of their logins; role changes and deletions are requested with   *)
(* every held token, for both identities and every role name, and both     *)
(* identities may log in again.                                            *)
RoleNames == Roles \cup {"root"}

InitAdmin ==
  /\ now = 0
  /\ env = DefaultEnv
  /\ users = Verified
  /\ nextId = 3
  /\ otpStore = [a \in Emails |-> NoOtp]
  /\ mail = NoMail
  /\ rate = [general |-> ZeroCounter, otp |-> ZeroCounter]
  /\ reached = [verify |-> 0, resend |-> 0]
  /\ pc = [p \in Procs |-> "idle"]
  /\ loc = [p \in Procs |-> NoLoc]
  /\ res = NoRes
  /\ jar = [i \in Ids |-> IF i = 1 THEN Sign(1, "admin")
                          ELSE IF i = 2 THEN Sign(2, "reader") ELSE NoToken]
  /\ posts = [i \in PostIds |-> NoPost]
  /\ nextPost = 1

NextAdmin ==
  \/ \E p \in Procs :
       \/ LoginStart(p, FreshIp, TRUE, "alice@x.com", "pw1")
       \/ LoginStart(p, FreshIp, TRUE, ADMIN_EMAIL, ADMIN_PASSWORD)
       \/ LoginFinish(p)
       \/ \E token \in Held, id \in {1, 2}, role \in RoleNames :
            AdminChangeRole(p, FreshIp, token, id, role)
       \/ \E token \in Held, id \in {1, 2} : AdminDeleteUser(p, FreshIp, token, id)

SpecAdmin == InitAdmin /\ [][NextAdmin]_vars

(* Notification: one account is registered, asks for new codes and         *)
(* verifies, and every delivery of a code may fail.                        *)
InitNotify ==
  /\ InitWith(DefaultEnv)
  /\ jar = [i \in Ids |-> NoToken]

NextNotify ==
  \/ Tick(TickMs, MaxClockTicks)
  \/ \E p \in Procs :
       \/ RegisterStart(p, FreshIp, TRUE, "alice", "alice@x.com", "pw1", "reader")
       \/ RegisterCreate(p)
       \/ RegisterSave(p, "111111")
       \/ \E delivered \in BOOLEAN : RegisterSend(p, delivered)
       \/ ResendOtpStart(p, FreshIp, "alice@x.com")
       \/ ResendOtpSave(p, "222222")
       \/ \E delivered \in BOOLEAN : ResendOtpSend(p, delivered)
       \/ \E otp \in Codes : VerifyOtpStart(p, FreshIp, "alice@x.com", otp)
       \/ VerifyOtpFinish(p)

SpecNotify == InitNotify /\ [][NextNotify]_vars

(* --------------------- services/otpService.js, the Map ----------------- *)
SweepMs == 60 * 1000

Swept_Every(storedData) == TRUE

\* the test of the clean-up loop on one entry of the Map
Swept(storedData) == storedData.expiresAt < now

\* the callback of setInterval: it runs to completion on the event loop, so it
\* is one step; the timer fires on whole multiples of the interval
Sweep ==
  /\ now % SweepMs = 0
  /\ otpStore' = [email \in Emails |->
                    IF otpStore[email] # NoOtp /\ Swept(otpStore[email])
                    THEN NoOtp ELSE otpStore[email]]
  /\ UNCHANGED <<now, env, rate, reached, pc, loc, res>>
  /\ UNCHANGED <<users, nextId, mail, jar, posts, nextPost>>

\* what verifyOTP returns
Verdict(email, valid, message) ==
  [op |-> "verifyOTP", email |-> email, valid |-> valid, message |-> message]

verifyOTP_CodeFirst(email, otp) ==
  LET storedData == otpStore[email]
  IN /\ IF storedData = NoOtp
        THEN /\ res' = Verdict(email, FALSE, "OTP not found. Please request a new one.")
             /\ otpStore' = otpStore
        ELSE IF storedData.code # otp
        THEN /\ res' = Verdict(email, FALSE, "Invalid OTP code.")
             /\ otpStore' = otpStore
        ELSE IF storedData.expiresAt < now
        THEN /\ res' = Verdict(email, FALSE, "OTP has expired. Please request a new one.")
             /\ otpStore' = [otpStore EXCEPT ![email] = NoOtp]
        ELSE /\ res' = Verdict(email, TRUE, "OTP verified successfully")
             /\ otpStore' = [otpStore EXCEPT ![email] = NoOtp]
     /\ UNCHANGED <<now, env, rate, reached, pc, loc>>
     /\ UNCHANGED <<users, nextId, mail, jar, posts, nextPost>>

\* services/otpService.js verifyOTP: a synchronous function on the Map
verifyOTP(email, otp) ==
  LET storedData == otpStore[email]
  IN /\ IF storedData = NoOtp
        THEN /\ res' = Verdict(email, FALSE, "OTP not found. Please request a new one.")
             /\ otpStore' = otpStore
        ELSE IF storedData.expiresAt < now
        THEN /\ res' = Verdict(email, FALSE, "OTP has expired. Please request a new one.")
             /\ otpStore' = [otpStore EXCEPT ![email] = NoOtp]
        ELSE IF storedData.code # otp
        THEN /\ res' = Verdict(email, FALSE, "Invalid OTP code.")
             /\ otpStore' = otpStore
        ELSE /\ res' = Verdict(email, TRUE, "OTP verified successfully")
             /\ otpStore' = [otpStore EXCEPT ![email] = NoOtp]
     /\ UNCHANGED <<now, env, rate, reached, pc, loc>>
     /\ UNCHANGED <<users, nextId, mail, jar, posts, nextPost>>

(* The one-time-code service: one account registers and asks for new       *)
(* codes, the clean-up timer runs, and codes are checked against the Map.  *)
InitSweep ==
  /\ InitWith(DefaultEnv)
  /\ jar = [i \in Ids |-> NoToken]

NextSweep ==
  \/ Tick(TickMs, MaxClockTicks)
  \/ Sweep
  \/ \E otp \in Codes : verifyOTP("alice@x.com", otp)
  \/ \E p \in Procs :
       \/ RegisterStart(p, FreshIp, TRUE, "alice", "alice@x.com", "pw1", "reader")
       \/ RegisterCreate(p)
       \/ RegisterSave(p, "111111")
       \/ RegisterSend(p, TRUE)
       \/ ResendOtpStart(p, FreshIp, "alice@x.com")
       \/ ResendOtpSave(p, "222222")
       \/ ResendOtpSend(p, TRUE)

SpecSweep == InitSweep /\ [][NextSweep]_vars

\* the timer keeps firing while the process runs
SpecSweepFair == SpecSweep /\ WF_vars(Sweep)

(* Reading posts: the administrator and one author hold the tokens of     *)
(* their logins; they write drafts and published posts, change and delete  *)
(* them, while a second request at a time lists and opens posts.           *)
Slugs == {<<"a">>, <<"a", "-", "1">>}

Statuses == {"draft", "published"}

InitPublic ==
  /\ now = 0
  /\ env = DefaultEnv
  /\ users = [Verified EXCEPT ![2].role = "author"]
  /\ nextId = 3
  /\ otpStore = [a \in Emails |-> NoOtp]
  /\ mail = NoMail
  /\ rate = [general |-> ZeroCounter, otp |-> ZeroCounter]
  /\ reached = [verify |-> 0, resend |-> 0]
  /\ pc = [p \in Procs |-> "idle"]
  /\ loc = [p \in Procs |-> NoLoc]
  /\ res = NoRes
  /\ jar = [i \in Ids |-> IF i = 1 THEN Sign(1, "admin")
                          ELSE IF i = 2 THEN Sign(2, "author") ELSE NoToken]
  /\ posts = [i \in PostIds |-> NoPost]
  /\ nextPost = 1

NextPublic ==
  \/ \E token \in Held, status \in Statuses :
       PostCreateStart(1, FreshIp, token, TRUE, <<"A">>, status)
  \/ PostSlugNext(1)
  \/ PostCreateFinish(1)
  \/ \E token \in Held, status \in Statuses :
       PostUpdateStart(1, FreshIp, token, TRUE, 1, <<"A">>, status)
  \/ PostUpdateCheck(1)
  \/ PostUpdateFinish(1)
  \/ PostDeleteStart(1, FreshIp, jar[1], 1)
  \/ PostDeleteFinish(1)
  \/ GetPosts(2, FreshIp)
  \/ \E slug \in Slugs : GetPostStart(2, FreshIp, slug)
  \/ GetPostFinish(2)
  \/ \E token \in Held \cup {NoToken} : AdminGetPosts(2, FreshIp, token)
  \/ \E token \in Held : MyPosts(2, FreshIp, token)

SpecPublic == InitPublic /\ [][NextPublic]_vars

(* Slugs: the administrator creates posts, renames and deletes the first, *)
(* two requests at a time; the titles give equal slugs and slugs that     *)
(* look like a slug with a counter.                                        *)
SlugTitles == Titles \cup {<<"a", " ", "1">>}

NextSlug ==
  \E p \in Procs :
    \/ \E title \in SlugTitles :
         PostCreateStart(p, FreshIp, jar[1], TRUE, title, "published")
    \/ PostSlugNext(p)
    \/ PostCreateFinish(p)
    \/ \E title \in SlugTitles :
         PostUpdateStart(p, FreshIp, jar[1], TRUE, 1, title, "published")
    \/ PostUpdateCheck(p)
    \/ PostUpdateFinish(p)
    \/ PostDeleteStart(p, FreshIp, jar[1], 1)
    \/ PostDeleteFinish(p)

SpecSlug == InitPublic /\ [][NextSlug]_vars

\* a handler that has been resumed by its database runs on
SpecSlugFair ==
  SpecSlug /\ \A p \in Procs :
                WF_vars(PostSlugNext(p) \/ PostCreateFinish(p) \/ PostUpdateFinish(p))

(* Registration with a failing database: register requests for the new   *)
(* account and for the administrator's address, two at a time; each of the *)
(* two writes of the handler may be rejected, and a mail may be lost.      *)
InitAtomic ==
  /\ InitWith(DefaultEnv)
  /\ jar = [i \in Ids |-> NoToken]

NextAtomic ==
  \/ Tick(TickMs, MaxClockTicks)
  \/ \E p \in Procs :
       \/ \E valid \in BOOLEAN, email \in Emails, role \in {"reader", "admin"} :
            RegisterStart(p, FreshIp, valid, "alice", email, "pw1", role)
       \/ RegisterCreate(p)
       \/ RegisterCreateFails(p)
       \/ RegisterSave(p, "111111")
       \/ RegisterSaveFails(p)
       \/ \E delivered \in BOOLEAN : RegisterSend(p, delivered)

SpecAtomic == InitAtomic /\ [][NextAtomic]_vars

(* ========================= claims C1 .. C5 ============================== *)

\* C1: single use of an OTP under concurrency.  Whenever a verify-otp request
\* is answered Valid (200 with a token), the challenge it matched is still
\* stored on the identity at that moment, so that of two concurrent requests
\* with the correct code only one can be Valid and the other finds no live
\* challenge.
C1_SingleUse ==
  [][\A p \in Procs :
       (pc[p] = "verify" /\ pc'[p] = "idle" /\ res'.op = "verify-otp" /\ res'.status = 200)
         => (users[loc[p].user.id] # NoUser /\ users[loc[p].user.id].otp # NoOtp)]_vars

\* C2: an identity is created unverified, and isVerified only becomes true in
\* the step that finishes a verify-otp request for that identity whose code
\* equals the code of the challenge the request found, that challenge being
\* unexpired; no other step sets isVerified.
C2_UnverifiedUntilMatch ==
  [][\A i \in Ids :
       (users'[i] # NoUser /\ users'[i].isVerified
          /\ (users[i] = NoUser \/ ~users[i].isVerified))
         => /\ users[i] # NoUser
            /\ \E p \in Procs :
                 /\ pc[p] = "verify" /\ pc'[p] = "idle"
                 /\ loc[p].user # NoUser
                 /\ loc[p].user.id = i
                 /\ loc[p].user.doc.otp # NoOtp
                 /\ loc[p].user.doc.otp.code = loc[p].otp
                 /\ loc[p].user.doc.otp.expiresAt >= now
                 /\ res'.op = "verify-otp" /\ res'.status = 200]_vars

C2_Witness ==
  /\ users[2] # NoUser
  /\ users[2].isVerified
  /\ res # NoRes
  /\ res.op = "verify-otp"
  /\ res.status = 200

\* C3: at most one live challenge per identity.  The step of register or
\* resend-otp that issues a challenge leaves exactly the new code, valid for
\* 10 minutes, stored on the identity, whatever was stored before; and a
\* verify-otp that finds a challenge whose code differs from the submitted one
\* is not Valid and changes no identity.
C3_NewChallengeSupersedes ==
  [][\A p \in Procs :
       /\ (pc[p] = "resend" /\ pc'[p] = "resend_send")
            => users'[loc[p].user.id].otp =
                 [code |-> loc'[p].otpCode, expiresAt |-> now + OTP_TTL]
       /\ (pc[p] = "register_save" /\ pc'[p] = "register_send")
            => users'[loc[p].id].otp =
                 [code |-> loc'[p].otpCode, expiresAt |-> now + OTP_TTL]
       /\ (pc[p] = "verify" /\ pc'[p] = "idle" /\ loc[p].user # NoUser
             /\ loc[p].user.doc.otp # NoOtp /\ loc[p].user.doc.otp.code # loc[p].otp)
            => (res'.status # 200 /\ res'.token = NoToken /\ users' = users)]_vars

\* a verify-otp was answered "Invalid OTP" for an unverified identity that
\* holds a challenge issued by a resend (after the clock had advanced)
C3_Witness ==
  /\ res # NoRes
  /\ res.op = "verify-otp" /\ res.message = "Invalid OTP"
  /\ users[2] # NoUser
  /\ ~users[2].isVerified
  /\ users[2].otp # NoOtp
  /\ users[2].otp.expiresAt > OTP_TTL
  /\ mail # NoMail
  /\ mail.code = users[2].otp.code

\* C4: login does not reveal whether an e-mail is registered.  A login that
\* finds no identity and a login that finds one with a different password get
\* the same outward response, 401 "Incorrect email or password" without a
\* token; a login with the right password for an unverified identity gets a
\* different response, flagged requiresVerification, also without a token.
C4_LoginNoEnumeration ==
  [][\A p \in Procs :
       (pc[p] = "login" /\ pc'[p] = "idle")
         => /\ (loc[p].user = NoUser
                  \/ (loc[p].user # NoUser
                        /\ ~correctPassword(loc[p].password, loc[p].user.doc.password)))
                 => Outward(res') =
                      [status |-> 401, message |-> "Incorrect email or password",
                       requiresVerification |-> FALSE, hasToken |-> FALSE]
            /\ (loc[p].user # NoUser
                  /\ correctPassword(loc[p].password, loc[p].user.doc.password)
                  /\ ~loc[p].user.doc.isVerified)
                 => /\ Outward(res').requiresVerification
                    /\ ~Outward(res').hasToken
                    /\ Outward(res') #
                         [status |-> 401, message |-> "Incorrect email or password",
                          requiresVerification |-> FALSE, hasToken |-> FALSE]]_vars

\* a login for an e-mail that is not registered was answered 401
C4_Witness ==
  /\ res # NoRes
  /\ res.op = "login" /\ res.status = 401 /\ ~res.requiresVerification
  /\ FindByEmail(res.email) = NoUser

\* C5 as stated: whenever a response carries a token, the subject of the token
\* is at that moment a verified identity of the credential store and the token
\* carries its id and its role at that moment.
C5_TokenRoleAtMint ==
  [][\A p \in Procs :
       (pc[p] \in {"login", "verify"} /\ pc'[p] = "idle" /\ res'.token # NoToken)
         => /\ users'[res'.token.payload.id] # NoUser
            /\ users'[res'.token.payload.id].isVerified
            /\ res'.token.payload.role = users'[res'.token.payload.id].role]_vars

\* C5 amended: a token is minted only by the step that finishes a login whose
\* password matches an identity the request read as verified, or a verify-otp
\* that is Valid; the token is signed at that moment and carries the id and
\* the role of the identity as the request read it; every successful login or
\* verification carries such a token, and no other step hands out a token.
C5_TokenOnlyForVerified ==
  [][/\ \A p \in Procs :
          (pc[p] \in {"login", "verify"} /\ pc'[p] = "idle")
            => /\ (res'.status = 200) <=> (res'.token # NoToken)
               /\ (res'.token # NoToken)
                    => /\ loc[p].user # NoUser
                       /\ res'.token = Sign(loc[p].user.id, loc[p].user.doc.role)
                       /\ jar'[loc[p].user.id] = res'.token
                       /\ pc[p] = "login"
                            => /\ loc[p].user.doc.isVerified
                               /\ correctPassword(loc[p].password,
                                                  loc[p].user.doc.password)
                       /\ pc[p] = "verify"
                            => /\ users'[loc[p].user.id].isVerified
                               /\ loc[p].user.doc.otp # NoOtp
                               /\ loc[p].user.doc.otp.code = loc[p].otp
     /\ (jar' # jar \/ (res' # NoRes /\ res' # res /\ res'.token # NoToken))
          => \E p \in Procs : pc[p] \in {"login", "verify"} /\ pc'[p] = "idle"]_vars

\* a login of a verified identity was answered with a token
C5_Witness ==
  /\ res # NoRes
  /\ res.op = "login" /\ res.status = 200
  /\ res.token # NoToken
  /\ users[res.token.payload.id] # NoUser
  /\ users[res.token.payload.id].isVerified

(* ========================= claims C6 .. C8 ============================== *)

\* C6: within one window of the OTP limiter at most 5 verify-otp requests of
\* a client reach the handler, also with two requests in flight; a verify-otp
\* request that arrives when 5 were already counted in the running window is
\* answered 429, whatever e-mail and code it carries, and no handler runs: no
\* identity, challenge or token changes and no request is left in flight.
C6_OtpCeiling ==
  /\ [](reached.verify <= 5)
  /\ [][\A p \in Procs, email \in Emails, otp \in Codes :
          (VerifyOtpStart(p, Client, email, otp)
             /\ rate.otp.hits >= 5 /\ rate.otp.resetTime > now)
            => /\ res'.status = 429
               /\ pc' = pc
               /\ users' = users /\ otpStore' = otpStore /\ jar' = jar]_vars

\* the 6th verify-otp of the window, carrying the e-mail of an unverified
\* identity that holds an unexpired challenge, was answered 429
C6_Witness ==
  /\ res.op = "verify-otp" /\ res.status = 429
  /\ rate.otp.hits = 6
  /\ reached.verify = 5
  /\ users[2].otp # NoOtp
  /\ users[2].otp.expiresAt >= now
  /\ ~users[2].isVerified

\* C7: resend-otp is throttled by the OTP class too: at most 5 resend-otp
\* requests of a client are handled within one window of 15 minutes.
C7_ResendCeiling == reached.resend <= 5

\* C8: the two counters of a client are independent and window-scoped.
\* A logout request leaves the OTP counter unchanged and is answered 200 as
\* long as the general counter allows it, whatever the OTP counter is; a
\* verify-otp request beyond the OTP ceiling is answered 429 whatever the
\* general counter is; and the first request after a counter's window has
\* elapsed counts as hit 1 of a new window of that counter, while a counter
\* whose window is running is never decreased.
C8_IndependentCounters ==
  [][\A p \in Procs :
       /\ Logout(p, Client)
            => /\ rate'.otp = rate.otp
               /\ (rate.general.resetTime <= now \/ rate.general.hits < 100)
                    => res'.status = 200
       /\ \A otp \in Codes :
            VerifyOtpStart(p, Client, "alice@x.com", otp)
              => /\ (rate.otp.hits >= 5 /\ rate.otp.resetTime > now
                       /\ rate.general.hits < 100)
                      => res'.status = 429
                 /\ (rate.otp.resetTime <= now /\ rate.general.hits < 100)
                      => rate'.otp = [hits |-> 1, resetTime |-> now + windowMs]
                 /\ (rate.otp.resetTime > now) => rate'.otp.hits >= rate.otp.hits
       /\ (Logout(p, Client) \/ \E otp \in Codes : VerifyOtpStart(p, Client, "alice@x.com", otp))
            => /\ (rate.general.resetTime <= now)
                    => rate'.general = [hits |-> 1, resetTime |-> now + windowMs]
               /\ (rate.general.resetTime > now)
                    => rate'.general.hits >= rate.general.hits]_vars

\* with the OTP ceiling exceeded in the running window, a logout of the same
\* client was answered 200
C8_Witness ==
  /\ res.op = "logout" /\ res.status = 200
  /\ rate.otp.hits > 5
  /\ rate.otp.resetTime > now
  /\ rate.general.resetTime > now

(* ------------------------------- C9 ------------------------------------ *)
\* the request of slot 1 is turned away with this status: nothing is stored
\* and no handler is left waiting
TurnedAway(status) ==
  /\ res' # NoRes
  /\ res'.status = status
  /\ UNCHANGED stores
  /\ pc' = pc

\* the requests on /api/admin made with this token
OnAdminRoutes(token) ==
  \/ AdminGetUsers(1, FreshIp, token)
  \/ AdminDeleteUser(1, FreshIp, token, 2)
  \/ \E role \in {"author", "root"} : AdminChangeRole(1, FreshIp, token, 2, role)

\* the create, update, delete and my-posts requests made with this token
OnPostRoutes(token) ==
  \/ \E title \in Titles : PostCreateStart(1, FreshIp, token, TRUE, title, "draft")
  \/ PostUpdateStart(1, FreshIp, token, TRUE, 1, <<"A">>, "published")
  \/ PostDeleteStart(1, FreshIp, token, 1)
  \/ MyPosts(1, FreshIp, token)

\* C9: a request on a protected route whose token does not verify is answered
\* 401, changes no stored state and starts no handler; a request whose token
\* verifies with a role outside the route's role set (admin for /api/admin;
\* admin or author for post create, update, delete and my-posts) is answered
\* 403, a status different from 401, and changes nothing either.
C9_GateBeforeOperation ==
  [][/\ \/ TurnedAway(401)
        \/ \A token \in Presentable :
             ~Verify(token).ok => ~(OnAdminRoutes(token) \/ OnPostRoutes(token))
     /\ \/ TurnedAway(403) /\ res'.message # GateMessage(401)
        \/ \A token \in Presentable :
             /\ Verify(token).ok /\ Verify(token).role # "admin"
                  => ~OnAdminRoutes(token)
             /\ Verify(token).ok /\ Verify(token).role \notin {"admin", "author"}
                  => ~OnPostRoutes(token)]_vars

\* a reader's valid token was refused on POST /api/posts and no post exists
C9_Witness ==
  /\ res # NoRes
  /\ res.op = "post-create"
  /\ res.status = 403
  /\ Verify(jar[2]).ok
  /\ Verify(jar[2]).role = "reader"
  /\ LivePosts = {}

(* ------------------------------- C10 ----------------------------------- *)
\* the second at which a token minted with the configured lifetime expires
ExpiryOf(token) == token.payload.iat + Timespan(ExpiresIn)

C12_NoRevocation ==
  /\ [](\A i \in Ids :
          jar[i] # NoToken /\ now \div 1000 < jar[i].payload.exp
            => /\ Verify(jar[i]).ok
               /\ Verify(jar[i]).id = jar[i].payload.id
               /\ Verify(jar[i]).role = jar[i].payload.role)
  /\ [][\A p \in Procs, token \in Held :
          MyPosts(p, FreshIp, token)
            => (res'.status = 200
                  <=> /\ now \div 1000 < token.payload.exp
                      /\ token.payload.role \in {"admin", "author"})]_vars
  /\ [][\A p \in Procs :
          Logout(p, FreshIp)
            => /\ UNCHANGED <<users, nextId, otpStore, mail, jar, posts, nextPost>>
               /\ rate'.otp = rate.otp
               /\ res'.status = 200]_vars

\* the author was demoted to reader; the token minted before the demotion
\* still verifies as author, the administrator's token has expired, and a
\* my-posts request was served
C12_Witness ==
  /\ users[2] # NoUser
  /\ users[2].role = "reader"
  /\ jar[2] # NoToken
  /\ Verify(jar[2]) = [ok |-> TRUE, id |-> 2, role |-> "author"]
  /\ ~Verify(jar[1]).ok
  /\ res # NoRes
  /\ res.op = "my-posts"
  /\ res.status = 200

\* C13: a verify-otp that submits the code of the identity's challenge after
\* the TTL of the challenge has elapsed is answered Expired, leaves the
\* identity unverified, and removes the expired challenge from the identity.
C13_ExpiredRemoved ==
  [][\A p \in Procs :
       (/\ VerifyOtpFinish(p)
        /\ loc[p].user # NoUser
        /\ loc[p].user.doc.otp # NoOtp
        /\ loc[p].user.doc.otp.code = loc[p].otp
        /\ loc[p].user.doc.otp.expiresAt < now
        /\ users[loc[p].user.id].otp = loc[p].user.doc.otp)
         => /\ res'.status = 400
            /\ res'.message = "OTP has expired"
            /\ ~users'[loc[p].user.id].isVerified
            /\ users'[loc[p].user.id].otp = NoOtp]_vars

\* C14: a verify-otp whose code differs from the code of the identity's
\* unexpired challenge is answered Mismatch and changes neither the stored
\* challenge nor isVerified nor anything else stored; and a verify-otp that
\* reads an unexpired challenge and submits its code is Valid as long as the
\* identity exists, however many mismatches went before.
C14_MismatchRetains ==
  [][\A p \in Procs :
       /\ (/\ VerifyOtpFinish(p)
           /\ loc[p].user # NoUser
           /\ loc[p].user.doc.otp # NoOtp
           /\ loc[p].user.doc.otp.expiresAt >= now
           /\ loc[p].user.doc.otp.code # loc[p].otp)
            => /\ res'.status = 400
               /\ res'.message = "Invalid OTP"
               /\ res'.token = NoToken
               /\ UNCHANGED stores
       /\ (/\ VerifyOtpFinish(p)
           /\ loc[p].user # NoUser
           /\ loc[p].user.doc.otp # NoOtp
           /\ loc[p].user.doc.otp.expiresAt >= now
           /\ loc[p].user.doc.otp.code = loc[p].otp
           /\ users[loc[p].user.id] # NoUser)
            => /\ res'.status = 200
               /\ users'[loc[p].user.id].isVerified]_vars

\* a mismatch was answered, the unexpired challenge is still stored on the
\* unverified identity, and a request that read it with the correct code is
\* about to be decided
C14_Witness ==
  /\ res # NoRes
  /\ res.op = "verify-otp" /\ res.status = 400 /\ res.message = "Invalid OTP"
  /\ users[2] # NoUser
  /\ ~users[2].isVerified
  /\ users[2].otp # NoOtp
  /\ users[2].otp.expiresAt >= now
  /\ \E q \in Procs :
       /\ pc[q] = "verify"
       /\ loc[q].user # NoUser
       /\ loc[q].user.doc.otp = users[2].otp
       /\ loc[q].otp = users[2].otp.code

\* the outcome of a verification as the challenge manager defines it
Outcome(user, otp) ==
  IF user.doc.otp = NoOtp THEN "NotFound"
  ELSE IF user.doc.otp.expiresAt < now THEN "Expired"
  ELSE IF user.doc.otp.code # otp THEN "Mismatch"
  ELSE "Valid"

\* the outcome a caller can tell from a response to verify-otp
Told(r) ==
  IF r.status = 200 THEN "Valid"
  ELSE IF r.message = "OTP has expired" THEN "Expired"
  ELSE IF r.message = "Invalid OTP" THEN "Mismatch"
  ELSE "NotFound"

\* C15: the failed outcomes of verify-otp for a registered identity are
\* pairwise distinguishable: the response to a request tells the caller
\* whether there was no live challenge (NotFound), a challenge whose TTL has
\* elapsed (Expired, whatever the code) or a wrong code (Mismatch).
C15_Distinguishable ==
  [][\A p \in Procs :
       (/\ VerifyOtpFinish(p)
        /\ loc[p].user # NoUser
        /\ Outcome(loc[p].user, loc[p].otp) # "Valid")
         => Told(res') = Outcome(loc[p].user, loc[p].otp)]_vars

\* C16: username and e-mail are each unique among the stored identities in
\* every reachable state, also with two registrations in flight; and a
\* register request whose username or e-mail exists when the identity would
\* be created is rejected as a duplicate identity (400, "already exists")
\* with no identity created, no challenge issued and no notification sent.
C16_UniqueIdentities ==
  /\ [](\A i \in Live, j \in Live :
          i # j => /\ users[i].username # users[j].username
                   /\ users[i].email # users[j].email)
  /\ [][\A p \in Procs :
          RegisterCreate(p) /\ DuplicateKey(loc[p].username, loc[p].email)
            => /\ res'.status = 400
               /\ res'.message = "User with this email or username already exists"
               /\ pc'[p] = "idle"
               /\ UNCHANGED stores]_vars

\* C17: registration never creates an identity with role admin, in
\* production and in development alike: the role of a newly created
\* identity is reader or author.
C17_NoAdminRegistration ==
  [][\A p \in Procs :
       RegisterCreate(p) /\ users' # users
         => users'[nextId].role \in {"reader", "author"}]_vars

\* C18: a role change or a deletion whose target is the identity of the
\* presented token is rejected and leaves the credential store unchanged;
\* and a role change is rejected without changing any role when the token
\* does not verify, when its role is not admin, or when the requested role
\* is none of admin, author and reader.
C18_SelfActionGuard ==
  [][\A p \in Procs, token \in Held, id \in {1, 2} :
       /\ (/\ Verify(token).ok
           /\ Verify(token).id = id
           /\ \/ AdminDeleteUser(p, FreshIp, token, id)
              \/ \E role \in RoleNames : AdminChangeRole(p, FreshIp, token, id, role))
            => /\ res'.status \in {400, 403}
               /\ users' = users
       /\ \A role \in RoleNames :
            (/\ \/ ~Verify(token).ok
                \/ Verify(token).role # "admin"
                \/ role \notin {"admin", "author", "reader"}
             /\ AdminChangeRole(p, FreshIp, token, id, role))
              => /\ res'.status \in {400, 401, 403}
                 /\ users' = users]_vars

\* the administrator's request to change the administrator's own role was
\* rejected and the administrator is still an administrator
C18_Witness ==
  /\ res # NoRes
  /\ res.op = "admin-role"
  /\ res.status = 400
  /\ res.message = "Cannot change your own role"
  /\ users[1] # NoUser
  /\ users[1].role = "admin"

\* C19: a failed delivery of the code neither fails nor undoes issuance.  The
\* register or resend-otp request whose notification fails still reports
\* success, leaves the identities as stored and records the challenge; and a
\* verify-otp that submits the undelivered code, read unexpired, is Valid.
C19_DeliveryFailure ==
  [][\A p \in Procs :
       /\ RegisterSend(p, FALSE)
            => /\ res'.status = 201
               /\ users' = users
               /\ otpStore'[loc[p].email] = NewChallenge(loc[p].otpCode)
       /\ ResendOtpSend(p, FALSE)
            => /\ res'.status = 200
               /\ users' = users
               /\ otpStore'[loc[p].email] = NewChallenge(loc[p].otpCode)
       /\ (/\ VerifyOtpFinish(p)
           /\ mail # NoMail
           /\ ~mail.delivered
           /\ loc[p].otp = mail.code
           /\ loc[p].user # NoUser
           /\ loc[p].user.doc.otp # NoOtp
           /\ loc[p].user.doc.otp.code = mail.code
           /\ loc[p].user.doc.otp.expiresAt >= now)
            => /\ res'.status = 200
               /\ res'.token # NoToken
               /\ users'[loc[p].user.id].isVerified]_vars

\* the only code ever issued was not delivered, and the identity was
\* verified with it
C19_Witness ==
  /\ mail = [to |-> "alice@x.com", code |-> "111111", delivered |-> FALSE]
  /\ \A p \in Procs : pc[p] = "idle"
  /\ otpStore["alice@x.com"] # NoOtp
  /\ otpStore["alice@x.com"].code = "111111"
  /\ users[2] # NoUser
  /\ users[2].isVerified
  /\ res # NoRes
  /\ res.op = "verify-otp"
  /\ res.status = 200

\* C20: resend-otp stores a new challenge, expiring 10 minutes after it is
\* issued, only on an identity that is registered and not verified at that
\* moment; when the e-mail is unknown or the identity is verified the request
\* is rejected and nothing stored changes.
C20_ResendPreconditions ==
  [][\A p \in Procs, otpCode \in Codes :
       /\ ResendOtpSave(p, otpCode) /\ users' # users
            => /\ users[loc[p].user.id] # NoUser
               /\ ~users[loc[p].user.id].isVerified
               /\ users'[loc[p].user.id].otp =
                    [code |-> otpCode, expiresAt |-> now + 10 * 60 * 1000]
       /\ (/\ ResendOtpSave(p, otpCode)
           /\ \/ loc[p].user = NoUser
              \/ loc[p].user.doc.isVerified)
            => /\ res'.status \in {400, 404}
               /\ pc'[p] = "idle"
               /\ UNCHANGED stores]_vars

(* ========================= claims C21 .. C30 ============================ *)

\* C21: verified is terminal.  An identity that is verified stays stored and
\* verified in every step, and a verify-otp that is decided for an identity
\* that is already verified changes no stored state.
C21_VerifiedTerminal ==
  /\ [][\A i \in Ids :
          users[i] # NoUser /\ users[i].isVerified
            => users'[i] # NoUser /\ users'[i].isVerified]_vars
  /\ [][\A p \in Procs :
          (/\ VerifyOtpFinish(p)
           /\ loc[p].user # NoUser
           /\ users[loc[p].user.id] # NoUser
           /\ users[loc[p].user.id].isVerified)
            => users' = users /\ otpStore' = otpStore]_vars

\* C29: a verified identity never holds a challenge.
C29_VerifiedHoldsNoChallenge ==
  \A i \in Live : users[i].isVerified => users[i].otp = NoOtp

\* a challenge stored for the address, on the identity or in the Map, whose
\* expiresAt is before the clock
ExpiredOnIdentity(email) ==
  IF FindByEmail(email) = NoUser THEN FALSE
  ELSE IF FindByEmail(email).doc.otp = NoOtp THEN FALSE
  ELSE FindByEmail(email).doc.otp.expiresAt < now

ExpiredInMap(email) ==
  IF otpStore[email] = NoOtp THEN FALSE ELSE otpStore[email].expiresAt < now

\* the clean-up step deletes every entry of the Map that is expired and no
\* other, and with the timer firing an expired entry of the Map goes away
C22_MapSwept ==
  /\ [][Sweep => \A email \in Emails :
                   otpStore'[email] = IF ExpiredInMap(email) THEN NoOtp
                                      ELSE otpStore[email]]_vars
  /\ \A email \in Emails : ExpiredInMap(email) ~> ~ExpiredInMap(email)

\* C22: every issued challenge is eventually removed even if it is never
\* verified: the clean-up deletes exactly the expired challenges, an expired
\* challenge does not survive while the timer keeps firing, and the number of
\* stored challenges is bounded by the number of addresses.
C22_ExpiredEventuallyRemoved ==
  /\ C22_MapSwept
  /\ [][Sweep => \A email \in Emails : ~ExpiredOnIdentity(email)' /\ ~ExpiredInMap(email)']_vars
  /\ [](Cardinality({email \in Emails : otpStore[email] # NoOtp})
          + Cardinality({i \in Live : users[i].otp # NoOtp}) <= 2 * Cardinality(Emails))
  /\ \A email \in Emails : ExpiredOnIdentity(email) ~> ~ExpiredOnIdentity(email)

C24_VerifyPrecedence ==
  [][\A email \in Emails : \A otp \in Codes :
       verifyOTP(email, otp)
         => /\ IF otpStore[email] = NoOtp
               THEN /\ res' = Verdict(email, FALSE, "OTP not found. Please request a new one.")
                    /\ otpStore' = otpStore
               ELSE IF otpStore[email].expiresAt < now
               THEN /\ res' = Verdict(email, FALSE, "OTP has expired. Please request a new one.")
                    /\ otpStore'[email] = NoOtp
               ELSE IF otpStore[email].code # otp
               THEN /\ res' = Verdict(email, FALSE, "Invalid OTP code.")
                    /\ otpStore' = otpStore
               ELSE /\ res' = Verdict(email, TRUE, "OTP verified successfully")
                    /\ otpStore'[email] = NoOtp
            /\ res'.valid => otpStore[email] # NoOtp /\ otpStore'[email] = NoOtp
            /\ \A other \in Emails \ {email} : otpStore'[other] = otpStore[other]]_vars

\* a code was checked after its entry had expired: the answer is expired and
\* the entry is gone, while the identity still carries the challenge
C24_Witness ==
  /\ res = Verdict("alice@x.com", FALSE, "OTP has expired. Please request a new one.")
  /\ otpStore["alice@x.com"] = NoOtp
  /\ ExpiredOnIdentity("alice@x.com")

\* the requester wrote the post or is an administrator
AuthorOrAdmin(post, user) == post.author = user.id \/ user.role = "admin"

Drafts(r) == IF r = NoRes THEN {} ELSE {d \in r.data : d.status = "draft"}

C28_SomeAdminRemains ==
  \E i \in Live : users[i].role = "admin"

\* a register request is answered in this step
RegisterEnds(p) ==
  /\ pc[p] \in {"idle", "register", "register_save", "register_send"}
  /\ pc'[p] = "idle"
  /\ res' # NoRes
  /\ res'.op = "register"
  /\ pc[p] = "idle" => res' # res \/ rate' # rate

\* C30: registration is all or nothing.  A register request that is answered
\* 201 leaves its identity stored, unverified, with a challenge that expires
\* 10 minutes after it was issued; one that is answered with an error leaves
\* no identity it created; and an unverified identity without a challenge is
\* stored only while the register request that created it is still running.
C30_AllOrNothing ==
  /\ [][\A p \in Procs :
          (pc[p] = "register_save" /\ pc'[p] = "register_send")
            => /\ ~users'[loc[p].id].isVerified
               /\ users'[loc[p].id].otp = [code |-> loc'[p].otpCode,
                                           expiresAt |-> now + OTP_TTL]]_vars
  /\ [][\A p \in Procs :
          (RegisterEnds(p) /\ res'.status = 201)
            => \E i \in Ids : /\ users'[i] # NoUser
                              /\ users'[i].email = res'.email
                              /\ ~users'[i].isVerified
                              /\ users'[i].otp # NoOtp]_vars
  /\ [][\A p \in Procs :
          (RegisterEnds(p) /\ res'.status # 201)
            => /\ users' = users
               /\ pc[p] = "register_save" => users[loc[p].id] = NoUser]_vars
  /\ [](\A i \in Live :
          (~users[i].isVerified /\ users[i].otp = NoOtp)
            => \E p \in Procs : pc[p] = "register_save" /\ loc[p].id = i)

====
